---- MODULE Spec2Model ----
(***************************************************************************)
(* Donor lifecycle classification and churn-risk scoring                   *)
(* (src/new_analytics.py, "ADVANCED ANALYTICS - D3").                      *)
(*                                                                         *)
(* FnSpec applies the pure functions calculate_lifecycle_stage_advanced    *)
(* and calculate_churn_risk_advanced to inputs drawn from bounded sets.    *)
(*                                                                         *)
(* Spec is the report endpoint get_donor_lifecycle_analytics over the      *)
(* Party and Donation tables of one organization, which grow by            *)
(* create_party and create_donation (src/main.py) while the clock runs.    *)
(* Parties of other organizations are removed by the query's filter and    *)
(* are not modelled.  The donor_stats rows are taken in party id order.    *)
(* The handler is one action; the locals of its loop are kept in           *)
(* `evaluated`, also when the request raises.                              *)
(*                                                                         *)
(* ActionSpec calls get_recommended_action_advanced on every tier and      *)
(* stage.  LargeOrgSpec is the report endpoint over an organization of     *)
(* more parties than the roster holds.  RerunSpec makes the held request   *)
(* a second time at the same instant.  ConfigSpec is the request as it     *)
(* arrives, validated against the handler's signature.                     *)
(*                                                                         *)
(* Numbers.  Days are integers.  Amounts and lifetime_value are whole      *)
(* numbers of currency units.  avg_donation_frequency is the exact         *)
(* rational num / den, kept as a record [num, den] with den >= 1; the      *)
(* float test days > avg * 1.5 agrees with 2 * days * den > 3 * num on     *)
(* every span up to 2500 days over up to 11 gaps.  Rounded averages are    *)
(* fixed-point integers.                                                   *)
(***************************************************************************)
EXTENDS Integers, Sequences, FiniteSets, TLC

VARIABLES
    donation_count,          \* argument of both functions
    last_donation_date,      \* argument of the classifier (never read by it)
    lifetime_value,          \* argument of both functions
    days_since_last,         \* argument of both functions
    avg_donation_frequency,  \* argument of the scorer
    stage_result,            \* value returned by the classifier, or None
    risk_result,             \* value returned by the scorer, or None
    earlier,                 \* the scorer's previous call on this donor, or None
    recommendations,         \* the calls of get_recommended_action_advanced, with their results
    parties,                 \* number of Party rows of the organization (ids 1..parties)
    donations,               \* the Donation rows of those parties, a bag kept in row order
    utcnow,                  \* the clock, in ticks since 2020-01-01 00:00
    request,                 \* the parameters of the last report request, or None
    outcome,                 \* how that request ended: "none", "ok" or "AttributeError"
    response,                \* the LifecycleAnalyticsResponse it returned, or None
    evaluated,               \* the donors its loop evaluated, with the loop's locals
    rerun                    \* outcome and response of the same request made again, or None

fn_vars == <<donation_count, last_donation_date, lifetime_value, days_since_last,
             avg_donation_frequency, stage_result, risk_result, earlier, recommendations>>

db_vars == <<parties, donations, utcnow>>

req_vars == <<request, outcome, response, evaluated, rerun>>

vars == <<fn_vars, db_vars, req_vars>>

\* an optional value: None, or Some(x) holding x
None == <<>>

Some(x) == <<x>>

Val(o) == o[1]

(***************************************************************************)
(* Enumerations                                                            *)
(***************************************************************************)
LifecycleStageEnum == <<"prospect", "first_time", "repeat", "major", "lapsed", "lost">>

Stages == {LifecycleStageEnum[i] : i \in 1..Len(LifecycleStageEnum)}

ChurnRisk == {"low", "medium", "high", "critical"}

(***************************************************************************)
(* Thresholds and weights of the business rules                            *)
(***************************************************************************)
SINGLE_GIFT_LOST_DAYS == 365
LAPSED_DAYS == 365
LOST_DAYS == 730
MAJOR_VALUE == 5000

LONG_INACTIVITY_DAYS == 365
MEDIUM_INACTIVITY_DAYS == 180
SHORT_INACTIVITY_DAYS == 90
LONG_INACTIVITY_WEIGHT == 40
MEDIUM_INACTIVITY_WEIGHT == 20
SHORT_INACTIVITY_WEIGHT == 10
OVERDUE_WEIGHT == 25
LIMITED_HISTORY_COUNT == 3
LIMITED_HISTORY_WEIGHT == 15
HIGH_VALUE_DONOR_VALUE == 5000
HIGH_VALUE_INACTIVITY_DAYS == 180
HIGH_VALUE_WEIGHT == 20
CRITICAL_SCORE == 70
HIGH_SCORE == 50
MEDIUM_SCORE == 30

NEVER_DAYS == 999999

(***************************************************************************)
(* calculate_lifecycle_stage_advanced                                      *)
(***************************************************************************)
\* mutants of the classifier (each a slip in one comparison or in the check order)
StageRecencyBeforeCount(count, last_date, ltv, days) ==
    IF days >= LAPSED_DAYS
    THEN (IF days >= LOST_DAYS THEN "lost" ELSE "lapsed")
    ELSE IF count = 0 THEN "prospect"
    ELSE IF count = 1 THEN "first_time"
    ELSE IF ltv >= MAJOR_VALUE THEN "major"
    ELSE "repeat"

StageSingleGiftLostAtBoundary(count, last_date, ltv, days) ==
    IF count = 0 THEN "prospect"
    ELSE IF count = 1
         THEN (IF days >= SINGLE_GIFT_LOST_DAYS THEN "lost" ELSE "first_time")
    ELSE IF days >= LAPSED_DAYS
         THEN (IF days >= LOST_DAYS THEN "lost" ELSE "lapsed")
    ELSE IF ltv >= MAJOR_VALUE THEN "major"
    ELSE "repeat"

StageLostAfterBoundary(count, last_date, ltv, days) ==
    IF count = 0 THEN "prospect"
    ELSE IF count = 1
         THEN (IF days > SINGLE_GIFT_LOST_DAYS THEN "lost" ELSE "first_time")
    ELSE IF days >= LAPSED_DAYS
         THEN (IF days > LOST_DAYS THEN "lost" ELSE "lapsed")
    ELSE IF ltv >= MAJOR_VALUE THEN "major"
    ELSE "repeat"

StageMajorBeforeRecency(count, last_date, ltv, days) ==
    IF count = 0 THEN "prospect"
    ELSE IF count = 1
         THEN (IF days > SINGLE_GIFT_LOST_DAYS THEN "lost" ELSE "first_time")
    ELSE IF ltv >= MAJOR_VALUE THEN "major"
    ELSE IF days >= LAPSED_DAYS
         THEN (IF days >= LOST_DAYS THEN "lost" ELSE "lapsed")
    ELSE "repeat"

StageMajorAboveThreshold(count, last_date, ltv, days) ==
    IF count = 0 THEN "prospect"
    ELSE IF count = 1
         THEN (IF days > SINGLE_GIFT_LOST_DAYS THEN "lost" ELSE "first_time")
    ELSE IF days >= LAPSED_DAYS
         THEN (IF days >= LOST_DAYS THEN "lost" ELSE "lapsed")
    ELSE IF ltv > MAJOR_VALUE THEN "major"
    ELSE "repeat"

StageMajorNeedsThreeGifts(count, last_date, ltv, days) ==
    IF count = 0 THEN "prospect"
    ELSE IF count = 1
         THEN (IF days > SINGLE_GIFT_LOST_DAYS THEN "lost" ELSE "first_time")
    ELSE IF days >= LAPSED_DAYS
         THEN (IF days >= LOST_DAYS THEN "lost" ELSE "lapsed")
    ELSE IF ltv >= MAJOR_VALUE /\ count >= 3 THEN "major"
    ELSE "repeat"

StageLapsedAfterBoundary(count, last_date, ltv, days) ==
    IF count = 0 THEN "prospect"
    ELSE IF count = 1
         THEN (IF days > SINGLE_GIFT_LOST_DAYS THEN "lost" ELSE "first_time")
    ELSE IF days > LAPSED_DAYS
         THEN (IF days >= LOST_DAYS THEN "lost" ELSE "lapsed")
    ELSE IF ltv >= MAJOR_VALUE THEN "major"
    ELSE "repeat"

calculate_lifecycle_stage_advanced(count, last_date, ltv, days) ==
    IF count = 0 THEN "prospect"
    ELSE IF count = 1
         THEN (IF days > SINGLE_GIFT_LOST_DAYS THEN "lost" ELSE "first_time")
    ELSE IF days >= LAPSED_DAYS
         THEN (IF days >= LOST_DAYS THEN "lost" ELSE "lapsed")
    ELSE IF ltv >= MAJOR_VALUE THEN "major"
    ELSE "repeat"

(***************************************************************************)
(* calculate_churn_risk_advanced.  r is the pair of locals                 *)
(* (risk_factors, risk_score); each rule is one block of the function.     *)
(***************************************************************************)
AddFactor(r, factor, weight) ==
    [risk_factors |-> Append(r.risk_factors, factor),
     risk_score   |-> r.risk_score + weight]

\* mutant: the three inactivity bands tested by independent ifs, not an elif chain
InactivityBandsIndependent(r, days) ==
    LET a == IF days >= LONG_INACTIVITY_DAYS
             THEN AddFactor(r, <<"No donation in", days, "days (12+ months)">>, LONG_INACTIVITY_WEIGHT)
             ELSE r
        b == IF days >= MEDIUM_INACTIVITY_DAYS
             THEN AddFactor(a, <<"No donation in", days, "days (6+ months)">>, MEDIUM_INACTIVITY_WEIGHT)
             ELSE a
    IN  IF days >= SHORT_INACTIVITY_DAYS
        THEN AddFactor(b, <<"No donation in", days, "days (3+ months)">>, SHORT_INACTIVITY_WEIGHT)
        ELSE b

\* mutant: the 12-month band starting after day 365, as the classifier's
\* single-gift rule does
InactivityLongAfterBoundary(r, days) ==
    IF days > LONG_INACTIVITY_DAYS
    THEN AddFactor(r, <<"No donation in", days, "days (12+ months)">>, LONG_INACTIVITY_WEIGHT)
    ELSE IF days >= MEDIUM_INACTIVITY_DAYS
    THEN AddFactor(r, <<"No donation in", days, "days (6+ months)">>, MEDIUM_INACTIVITY_WEIGHT)
    ELSE IF days >= SHORT_INACTIVITY_DAYS
    THEN AddFactor(r, <<"No donation in", days, "days (3+ months)">>, SHORT_INACTIVITY_WEIGHT)
    ELSE r

InactivityPeriod(r, days) ==
    IF days >= LONG_INACTIVITY_DAYS
    THEN AddFactor(r, <<"No donation in", days, "days (12+ months)">>, LONG_INACTIVITY_WEIGHT)
    ELSE IF days >= MEDIUM_INACTIVITY_DAYS
    THEN AddFactor(r, <<"No donation in", days, "days (6+ months)">>, MEDIUM_INACTIVITY_WEIGHT)
    ELSE IF days >= SHORT_INACTIVITY_DAYS
    THEN AddFactor(r, <<"No donation in", days, "days (3+ months)">>, SHORT_INACTIVITY_WEIGHT)
    ELSE r

\* mutant: the overdue comparison reversed
OverdueWhenEarly(r, days, avg) ==
    IF avg.num > 0 /\ 2 * days * avg.den < 3 * avg.num
    THEN AddFactor(r, <<"Overdue based on donation pattern">>, OVERDUE_WEIGHT)
    ELSE r

\* avg > 0 and days > avg * 1.5, with avg = num / den and den >= 1
DonationPatternDeviation(r, days, avg) ==
    IF avg.num > 0 /\ 2 * days * avg.den > 3 * avg.num
    THEN AddFactor(r, <<"Overdue based on donation pattern">>, OVERDUE_WEIGHT)
    ELSE r

LimitedEngagement(r, count) ==
    IF count < LIMITED_HISTORY_COUNT
    THEN AddFactor(r, <<"Limited giving history (< 3 donations)">>, LIMITED_HISTORY_WEIGHT)
    ELSE r

\* mutant: the high-value rule applied from the 3-month band on
HighValueFromThreeMonths(r, ltv, days) ==
    IF ltv >= HIGH_VALUE_DONOR_VALUE /\ days >= SHORT_INACTIVITY_DAYS
    THEN AddFactor(r, <<"High-value donor showing inactivity">>, HIGH_VALUE_WEIGHT)
    ELSE r

HighValueDonorRisk(r, ltv, days) ==
    IF ltv >= HIGH_VALUE_DONOR_VALUE /\ days >= HIGH_VALUE_INACTIVITY_DAYS
    THEN AddFactor(r, <<"High-value donor showing inactivity">>, HIGH_VALUE_WEIGHT)
    ELSE r

\* mutant: the tier thresholds exclusive
RiskLevelAboveThreshold(risk_score) ==
    IF risk_score > CRITICAL_SCORE THEN "critical"
    ELSE IF risk_score > HIGH_SCORE THEN "high"
    ELSE IF risk_score > MEDIUM_SCORE THEN "medium"
    ELSE "low"

RiskLevelOf(risk_score) ==
    IF risk_score >= CRITICAL_SCORE THEN "critical"
    ELSE IF risk_score >= HIGH_SCORE THEN "high"
    ELSE IF risk_score >= MEDIUM_SCORE THEN "medium"
    ELSE "low"

calculate_churn_risk_advanced(days, count, avg, ltv) ==
    LET r0 == [risk_factors |-> <<>>, risk_score |-> 0]
        r1 == InactivityPeriod(r0, days)
        r2 == DonationPatternDeviation(r1, days, avg)
        r3 == LimitedEngagement(r2, count)
        r4 == HighValueDonorRisk(r3, ltv, days)
    IN  [risk_level   |-> RiskLevelOf(r4.risk_score),
         risk_factors |-> r4.risk_factors,
         risk_score   |-> r4.risk_score]

\* risk_order: the ordinal of a tier, low < medium < high < critical
risk_order(level) ==
    CASE level = "low" -> 1
      [] level = "medium" -> 2
      [] level = "high" -> 3
      [] level = "critical" -> 4

(***************************************************************************)
(* get_recommended_action_advanced                                         *)
(***************************************************************************)
\* mutant: the table looked up with (stage, risk_level), which is the key of no entry
ActionKeyedByStageFirst(risk_level, stage) ==
    "Standard stewardship communication"

get_recommended_action_advanced(risk_level, stage) ==
    CASE risk_level = "critical" /\ stage = "major" ->
             "URGENT: Personal call from Executive Director within 48 hours"
      [] risk_level = "critical" /\ stage = "repeat" ->
             "High-touch re-engagement campaign, offer exclusive event invite"
      [] risk_level = "high" /\ stage = "major" ->
             "Schedule coffee meeting, share insider updates"
      [] risk_level = "high" /\ stage = "repeat" ->
             "Multi-channel re-engagement, highlight recent impact"
      [] risk_level = "medium" /\ stage = "repeat" ->
             "Include in next newsletter, light touch"
      [] OTHER -> "Standard stewardship communication"

(***************************************************************************)
(* Dates.  A datetime is a number of ticks since 2020-01-01 00:00, with    *)
(* TicksPerDay ticks to the day.                                           *)
(***************************************************************************)
TicksPerDay == 2

\* (a - b).days: timedelta.days is the floor of the difference in days
TimedeltaDays(a, b) == (a - b) \div TicksPerDay

IsLeapYear(y) == (y % 4 = 0 /\ y % 100 # 0) \/ y % 400 = 0

DaysInYear(y) == IF IsLeapYear(y) THEN 366 ELSE 365

RECURSIVE YearFrom(_, _)
YearFrom(y, day) ==
    IF day < 0 THEN YearFrom(y - 1, day + DaysInYear(y - 1))
    ELSE IF day >= DaysInYear(y) THEN YearFrom(y + 1, day - DaysInYear(y))
    ELSE y

\* datetime.year and extract('year', ...)
YearOf(t) == YearFrom(2020, t \div TicksPerDay)

(***************************************************************************)
(* Sequences                                                               *)
(***************************************************************************)
RECURSIVE Sum(_)
Sum(s) == IF s = <<>> THEN 0 ELSE Head(s) + Sum(Tail(s))

RECURSIVE Max(_)
Max(s) ==
    IF Len(s) = 1 THEN s[1]
    ELSE LET m == Max(Tail(s)) IN IF s[1] >= m THEN s[1] ELSE m

RECURSIVE Min(_)
Min(s) ==
    IF Len(s) = 1 THEN s[1]
    ELSE LET m == Min(Tail(s)) IN IF s[1] <= m THEN s[1] ELSE m

\* round(n / d, k) as a whole number of 10^-k units, n already scaled by 10^k:
\* the nearest integer to n / d, a tie going to the even one
RoundHalfEven(n, d) ==
    LET q == n \div d
        r == n % d
    IN  IF 2 * r < d THEN q
        ELSE IF 2 * r > d THEN q + 1
        ELSE IF q % 2 = 0 THEN q ELSE q + 1

(***************************************************************************)
(* The tables read by the report                                           *)
(***************************************************************************)
\* the columns of models.ContactPoint
ContactPointColumns ==
    {"id", "organization_id", "party_id", "type", "channel", "value", "is_primary", "verified_at"}

\* the donor_stats query: one row per party of the organization, outer-joined
\* to its donations and grouped; count is 0 and the other aggregates are NULL
\* for a party with no donation
DonorStatsRow(party_id) ==
    LET ofParty(d) == d.party_id = party_id
        rows == SelectSeq(donations, ofParty)
        dates == [k \in 1..Len(rows) |-> rows[k].received_date]
        amounts == [k \in 1..Len(rows) |-> rows[k].intent_amount]
    IN  [donor_id            |-> party_id,
         donation_count      |-> Len(rows),
         last_donation_date  |-> IF rows = <<>> THEN None ELSE Some(Max(dates)),
         lifetime_value      |-> IF rows = <<>> THEN None ELSE Some(Sum(amounts)),
         first_donation_date |-> IF rows = <<>> THEN None ELSE Some(Min(dates))]

donor_stats == [i \in 1..parties |-> DonorStatsRow(i)]

\* donor.lifetime_value or 0
ValueOrZero(v) == IF v = None THEN 0 ELSE Val(v)

(***************************************************************************)
(* get_donor_lifecycle_analytics: the body of the loop over donor_stats    *)
(***************************************************************************)
\* mutant: a donor who never gave treated as having given today
DaysSinceLastNeverIsToday(donor, current_date) ==
    IF donor.last_donation_date # None
    THEN TimedeltaDays(current_date, Val(donor.last_donation_date))
    ELSE 0

DaysSinceLast(donor, current_date) ==
    IF donor.last_donation_date # None
    THEN TimedeltaDays(current_date, Val(donor.last_donation_date))
    ELSE NEVER_DAYS

\* mutant: the span divided by the number of donations, not of gaps
AvgFrequencyPerDonation(donor) ==
    IF donor.donation_count > 1 /\ donor.first_donation_date # None
                                /\ donor.last_donation_date # None
    THEN [num |-> TimedeltaDays(Val(donor.last_donation_date), Val(donor.first_donation_date)),
          den |-> donor.donation_count]
    ELSE [num |-> 0, den |-> 1]

AvgFrequency(donor) ==
    IF donor.donation_count > 1 /\ donor.first_donation_date # None
                                /\ donor.last_donation_date # None
    THEN [num |-> TimedeltaDays(Val(donor.last_donation_date), Val(donor.first_donation_date)),
          den |-> donor.donation_count - 1]
    ELSE [num |-> 0, den |-> 1]

\* mutant: the scorer called with days_since_last and donation_count exchanged
EvaluateDonorScorerArgsExchanged(donor, current_date) ==
    LET days == DaysSinceLast(donor, current_date)
        avg == AvgFrequency(donor)
        ltv == ValueOrZero(donor.lifetime_value)
        stage == calculate_lifecycle_stage_advanced(
                     donor.donation_count, donor.last_donation_date, ltv, days)
        risk == calculate_churn_risk_advanced(donor.donation_count, days, avg, ltv)
    IN  [donor_id           |-> donor.donor_id,
         donation_count     |-> donor.donation_count,
         last_donation_date |-> donor.last_donation_date,
         lifetime_value     |-> ltv,
         days_since_last    |-> days,
         avg_frequency      |-> avg,
         stage              |-> stage,
         risk_level         |-> risk.risk_level,
         risk_factors       |-> risk.risk_factors,
         risk_score         |-> risk.risk_score]

\* the locals of one iteration
EvaluateDonor(donor, current_date) ==
    LET days == DaysSinceLast(donor, current_date)
        avg == AvgFrequency(donor)
        ltv == ValueOrZero(donor.lifetime_value)
        stage == calculate_lifecycle_stage_advanced(
                     donor.donation_count, donor.last_donation_date, ltv, days)
        risk == calculate_churn_risk_advanced(days, donor.donation_count, avg, ltv)
    IN  [donor_id           |-> donor.donor_id,
         donation_count     |-> donor.donation_count,
         last_donation_date |-> donor.last_donation_date,
         lifetime_value     |-> ltv,
         days_since_last    |-> days,
         avg_frequency      |-> avg,
         stage              |-> stage,
         risk_level         |-> risk.risk_level,
         risk_factors       |-> risk.risk_factors,
         risk_score         |-> risk.risk_score]

\* the test that guards "Add to at-risk list"
IsAtRisk(e, include_at_risk, risk_threshold) ==
    include_at_risk /\ risk_order(e.risk_level) >= risk_order(risk_threshold)

\* the email query of an at-risk donor names ContactPoint.contact_value
EmailQueryRaises == "contact_value" \notin ContactPointColumns

\* the DonorChurnRisk entry appended for an at-risk donor
DonorChurnRisk(e) ==
    [donor_id                 |-> e.donor_id,
     email                    |-> None,
     last_donation_date       |-> e.last_donation_date,
     days_since_last_donation |-> e.days_since_last,
     total_donations          |-> e.donation_count,
     lifetime_value           |-> e.lifetime_value,
     current_stage            |-> e.stage,
     risk_level               |-> e.risk_level,
     risk_factors             |-> e.risk_factors,
     recommended_action       |-> get_recommended_action_advanced(e.risk_level, e.stage)]

(***************************************************************************)
(* get_donor_lifecycle_analytics: after the loop                           *)
(***************************************************************************)
ROSTER_CAP == 100
COHORT_YEARS == 2

\* sort(key = (risk_order_sort[risk_level], lifetime_value), reverse = True):
\* descending, entries with equal keys keeping their order
SortKeyGE(a, b) ==
    \/ risk_order(a.risk_level) > risk_order(b.risk_level)
    \/ /\ risk_order(a.risk_level) = risk_order(b.risk_level)
       /\ a.lifetime_value >= b.lifetime_value

RECURSIVE InsertSorted(_, _)
InsertSorted(sorted, x) ==
    IF sorted = <<>> THEN <<x>>
    ELSE IF SortKeyGE(Head(sorted), x) THEN <<Head(sorted)>> \o InsertSorted(Tail(sorted), x)
    ELSE <<x>> \o sorted

RECURSIVE SortAtRisk(_)
SortAtRisk(s) ==
    IF s = <<>> THEN <<>>
    ELSE InsertSorted(SortAtRisk(SubSeq(s, 1, Len(s) - 1)), s[Len(s)])

\* at_risk_donors[:100]
Truncate(s) == SubSeq(s, 1, IF Len(s) < ROSTER_CAP THEN Len(s) ELSE ROSTER_CAP)

\* mutant: the sums of a stage divided by the number of all donors
StageMetricsOverAllDonors(stage, evals) ==
    LET inStage(e) == e.stage = stage
        donors_in_stage == SelectSeq(evals, inStage)
        n == Len(donors_in_stage)
        ltvs == [k \in 1..n |-> donors_in_stage[k].lifetime_value]
        days == [k \in 1..n |-> donors_in_stage[k].days_since_last]
    IN  [stage              |-> stage,
         donor_count        |-> n,
         avg_days_in_stage  |-> IF n > 0 THEN RoundHalfEven(10 * Sum(days), Len(evals)) ELSE 0,
         avg_lifetime_value |-> IF n > 0 THEN RoundHalfEven(100 * Sum(ltvs), Len(evals)) ELSE 0]

\* mutant: the averages of a stage taken from the first of its donors read
StageMetricsOfFirstDonor(stage, evals) ==
    LET inStage(e) == e.stage = stage
        donors_in_stage == SelectSeq(evals, inStage)
        n == Len(donors_in_stage)
    IN  [stage              |-> stage,
         donor_count        |-> n,
         avg_days_in_stage  |-> IF n > 0 THEN 10 * donors_in_stage[1].days_since_last ELSE 0,
         avg_lifetime_value |-> IF n > 0 THEN 100 * donors_in_stage[1].lifetime_value ELSE 0]

\* one DonorLifecycleStageDetailed; avg_days_in_stage in tenths of a day,
\* avg_lifetime_value in hundredths of a currency unit
StageMetrics(stage, evals) ==
    LET inStage(e) == e.stage = stage
        donors_in_stage == SelectSeq(evals, inStage)
        n == Len(donors_in_stage)
        ltvs == [k \in 1..n |-> donors_in_stage[k].lifetime_value]
        days == [k \in 1..n |-> donors_in_stage[k].days_since_last]
    IN  [stage              |-> stage,
         donor_count        |-> n,
         avg_days_in_stage  |-> IF n > 0 THEN RoundHalfEven(10 * Sum(days), n) ELSE 0,
         avg_lifetime_value |-> IF n > 0 THEN RoundHalfEven(100 * Sum(ltvs), n) ELSE 0]

\* the parties with a donation received in the year
CohortDonors(year) ==
    {i \in 1..parties :
        \E k \in 1..Len(donations) :
            donations[k].party_id = i /\ YearOf(donations[k].received_date) = year}

CohortRow(year) ==
    [cohort_period |-> ToString(year), initial_count |-> Cardinality(CohortDonors(year)),
     retained_month_1 |-> 0, retained_month_3 |-> 0, retained_month_6 |-> 0,
     retained_month_12 |-> 0, retention_rate_12m |-> 0, avg_cohort_value |-> 0]

CohortAnalysis(current_date) ==
    LET first == YearOf(current_date) - COHORT_YEARS
        years == [k \in 1..(COHORT_YEARS + 1) |-> first + k - 1]
        rows == [k \in 1..Len(years) |-> CohortRow(years[k])]
        nonEmpty(c) == c.initial_count > 0
    IN  SelectSeq(rows, nonEmpty)

\* len(donors_by_stage[stage])
CountStage(evals, stage) ==
    LET inStage(e) == e.stage = stage
    IN  Len(SelectSeq(evals, inStage))

\* mutant: retention_rate the rounded fraction active / total, not a percentage
SummaryMetricsRateAsFraction(evals, at_risk_donors) ==
    LET total_donors ==
            Sum([k \in 1..Len(LifecycleStageEnum) |-> CountStage(evals, LifecycleStageEnum[k])])
        isCritical(d) == d.risk_level = "critical"
        active_donors == CountStage(evals, "repeat") + CountStage(evals, "major")
    IN  [total_donors        |-> total_donors,
         active_donors       |-> active_donors,
         at_risk_count       |-> Len(at_risk_donors),
         critical_risk_count |-> Len(SelectSeq(at_risk_donors, isCritical)),
         major_donors        |-> CountStage(evals, "major"),
         lapsed_donors       |-> CountStage(evals, "lapsed"),
         lost_donors         |-> CountStage(evals, "lost"),
         retention_rate      |-> IF total_donors > 0
                                 THEN 10 * RoundHalfEven(active_donors * 10, total_donors)
                                 ELSE 0]

\* mutant: an organization without donors reported as fully retained
SummaryMetricsFullRateWhenEmpty(evals, at_risk_donors) ==
    LET total_donors ==
            Sum([k \in 1..Len(LifecycleStageEnum) |-> CountStage(evals, LifecycleStageEnum[k])])
        isCritical(d) == d.risk_level = "critical"
        active_donors == CountStage(evals, "repeat") + CountStage(evals, "major")
    IN  [total_donors        |-> total_donors,
         active_donors       |-> active_donors,
         at_risk_count       |-> Len(at_risk_donors),
         critical_risk_count |-> Len(SelectSeq(at_risk_donors, isCritical)),
         major_donors        |-> CountStage(evals, "major"),
         lapsed_donors       |-> CountStage(evals, "lapsed"),
         lost_donors         |-> CountStage(evals, "lost"),
         retention_rate      |-> IF total_donors > 0
                                 THEN RoundHalfEven(active_donors * 100 * 10, total_donors)
                                 ELSE 100 * 10]

\* mutant: total_donors counting only the donors that have given
SummaryMetricsTotalOfGivers(evals, at_risk_donors) ==
    LET total_donors ==
            Sum([k \in 1..Len(LifecycleStageEnum) |-> CountStage(evals, LifecycleStageEnum[k])])
                - CountStage(evals, "prospect")
        isCritical(d) == d.risk_level = "critical"
        active_donors == CountStage(evals, "repeat") + CountStage(evals, "major")
    IN  [total_donors        |-> total_donors,
         active_donors       |-> active_donors,
         at_risk_count       |-> Len(at_risk_donors),
         critical_risk_count |-> Len(SelectSeq(at_risk_donors, isCritical)),
         major_donors        |-> CountStage(evals, "major"),
         lapsed_donors       |-> CountStage(evals, "lapsed"),
         lost_donors         |-> CountStage(evals, "lost"),
         retention_rate      |-> IF total_donors > 0
                                 THEN RoundHalfEven(active_donors * 100 * 10, total_donors)
                                 ELSE 0]

\* summary_metrics; retention_rate in tenths of a percent
SummaryMetrics(evals, at_risk_donors) ==
    LET total_donors ==
            Sum([k \in 1..Len(LifecycleStageEnum) |-> CountStage(evals, LifecycleStageEnum[k])])
        isCritical(d) == d.risk_level = "critical"
        active_donors == CountStage(evals, "repeat") + CountStage(evals, "major")
    IN  [total_donors        |-> total_donors,
         active_donors       |-> active_donors,
         at_risk_count       |-> Len(at_risk_donors),
         critical_risk_count |-> Len(SelectSeq(at_risk_donors, isCritical)),
         major_donors        |-> CountStage(evals, "major"),
         lapsed_donors       |-> CountStage(evals, "lapsed"),
         lost_donors         |-> CountStage(evals, "lost"),
         retention_rate      |-> IF total_donors > 0
                                 THEN RoundHalfEven(active_donors * 100 * 10, total_donors)
                                 ELSE 0]

LifecycleAnalyticsResponse(current_date, evals, at_risk_donors) ==
    [snapshot_date    |-> current_date,
     lifecycle_stages |-> [k \in 1..Len(LifecycleStageEnum) |->
                              StageMetrics(LifecycleStageEnum[k], evals)],
     cohort_analysis  |-> CohortAnalysis(current_date),
     at_risk_donors   |-> Truncate(at_risk_donors),
     summary_metrics  |-> SummaryMetrics(evals, at_risk_donors)]

(***************************************************************************)
(* Spec: the tables grow by create_party and create_donation, the clock    *)
(* advances, and the report is requested                                   *)
(***************************************************************************)
MaxParties == 3
MaxDonations == 3
MaxClockTicks == 1

\* 2026-01-11 00:00, in days since 2020-01-01
StartDay == 2202

StartTick == StartDay * TicksPerDay

DaysBefore(days) == StartTick - days * TicksPerDay

\* the donations sent to create_donation: received_date and intent_amount
DonationInputs ==
    {[received_date |-> DaysBefore(800), intent_amount |-> 100],
     [received_date |-> DaysBefore(400), intent_amount |-> 2000],
     [received_date |-> DaysBefore(10), intent_amount |-> 2000],
     [received_date |-> DaysBefore(365), intent_amount |-> 100],
     [received_date |-> DaysBefore(365) + 1, intent_amount |-> 5000]}

\* the order in which a bag of rows is kept
RowBefore(a, b) ==
    \/ a.party_id < b.party_id
    \/ a.party_id = b.party_id /\ a.received_date < b.received_date
    \/ a.party_id = b.party_id /\ a.received_date = b.received_date
                               /\ a.intent_amount <= b.intent_amount

RECURSIVE InsertRow(_, _)
InsertRow(rows, row) ==
    IF rows = <<>> THEN <<row>>
    ELSE IF RowBefore(Head(rows), row) THEN <<Head(rows)>> \o InsertRow(Tail(rows), row)
    ELSE <<row>> \o rows

NoRequest ==
    /\ request' = None
    /\ outcome' = "none"
    /\ response' = None
    /\ evaluated' = <<>>
    /\ rerun' = None

FnIdle ==
    /\ donation_count = 0
    /\ last_donation_date = None
    /\ lifetime_value = 0
    /\ days_since_last = 0
    /\ avg_donation_frequency = [num |-> 0, den |-> 1]
    /\ stage_result = None
    /\ risk_result = None
    /\ earlier = None
    /\ recommendations = <<>>

Init ==
    /\ FnIdle
    /\ parties = 0
    /\ donations = <<>>
    /\ utcnow = StartTick
    /\ request = None
    /\ outcome = "none"
    /\ response = None
    /\ evaluated = <<>>
    /\ rerun = None

create_party ==
    /\ parties < MaxParties
    /\ parties' = parties + 1
    /\ NoRequest
    /\ UNCHANGED <<donations, utcnow, fn_vars>>

create_donation ==
    /\ Len(donations) < MaxDonations
    /\ \E party_id \in 1..parties, donation \in DonationInputs :
          donations' = InsertRow(donations,
                                 [party_id      |-> party_id,
                                  received_date |-> donation.received_date,
                                  intent_amount |-> donation.intent_amount])
    /\ NoRequest
    /\ UNCHANGED <<parties, utcnow, fn_vars>>

ClockTick ==
    /\ utcnow < StartTick + MaxClockTicks
    /\ utcnow' = utcnow + 1
    /\ NoRequest
    /\ UNCHANGED <<parties, donations, fn_vars>>

\* the loop and what follows it, over the donor_stats rows as evaluated in the
\* order the query returned them
RunReport(evals, include_at_risk, risk_threshold) ==
    LET at_risk(e) == IsAtRisk(e, include_at_risk, risk_threshold)
        raising == {i \in 1..Len(evals) : at_risk(evals[i]) /\ EmailQueryRaises}
    IN  IF raising # {}
        THEN LET i == CHOOSE k \in raising : \A j \in raising : k <= j
             IN  [outcome   |-> "AttributeError",
                  response  |-> None,
                  evaluated |-> SubSeq(evals, 1, i)]
        ELSE LET selected == SelectSeq(evals, at_risk)
                 at_risk_donors ==
                     SortAtRisk([k \in 1..Len(selected) |-> DonorChurnRisk(selected[k])])
             IN  [outcome   |-> "ok",
                  response  |-> Some(LifecycleAnalyticsResponse(utcnow, evals, at_risk_donors)),
                  evaluated |-> evals]

\* one request is modelled at a time: its outcome is held until the tables
\* or the clock change
get_donor_lifecycle_analytics ==
    LET current_date == utcnow
        stats == donor_stats
    IN  /\ request = None
        /\ \E evals \in {[i \in 1..Len(stats) |-> EvaluateDonor(stats[i], current_date)]} :
           \E include_at_risk \in BOOLEAN, risk_threshold \in ChurnRisk :
           \E run \in {RunReport(evals, include_at_risk, risk_threshold)} :
               /\ request' = Some([include_at_risk |-> include_at_risk,
                                   risk_threshold  |-> risk_threshold])
               /\ outcome' = run.outcome
               /\ response' = run.response
               /\ evaluated' = run.evaluated
               /\ rerun' = None
        /\ UNCHANGED <<parties, donations, utcnow, fn_vars>>

Next == create_party \/ create_donation \/ ClockTick \/ get_donor_lifecycle_analytics

Spec == Init /\ [][Next]_vars

(***************************************************************************)
(* RerunSpec: the held request made a second time on the same tables at    *)
(* the same instant (the clock stands still).  The donor_stats query has   *)
(* no ORDER BY: the second run reads its rows in another order.            *)
(***************************************************************************)
\* the orders tried: the rows from any first row on, and the rows backwards
RowOrders(n) ==
    {[k \in 1..n |-> ((first - 1 + k - 1) % n) + 1] : first \in 1..n}
        \cup {[k \in 1..n |-> n + 1 - k]}

get_donor_lifecycle_analytics_again ==
    LET current_date == utcnow
        stats == donor_stats
    IN  /\ request # None
        /\ rerun = None
        /\ \E evals \in {[i \in 1..Len(stats) |-> EvaluateDonor(stats[i], current_date)]} :
           \E order \in RowOrders(Len(stats)) :
           \E run \in {RunReport([k \in 1..Len(stats) |-> evals[order[k]]],
                                  Val(request).include_at_risk,
                                  Val(request).risk_threshold)} :
               rerun' = Some([outcome |-> run.outcome, response |-> run.response])
        /\ UNCHANGED <<request, outcome, response, evaluated, parties, donations, utcnow,
                       fn_vars>>

RerunNext ==
    \/ create_party
    \/ create_donation
    \/ get_donor_lifecycle_analytics
    \/ get_donor_lifecycle_analytics_again

RerunSpec == Init /\ [][RerunNext]_vars

(***************************************************************************)
(* ConfigSpec: the request as it arrives, its query string validated       *)
(* against the handler's signature before the handler runs.  The           *)
(* signature declares include_at_risk (default True) and risk_threshold    *)
(* (a ChurnRisk, default medium); it declares no roster cap, and a query   *)
(* parameter that is not declared is ignored.  The parties are given no    *)
(* donation.                                                               *)
(***************************************************************************)
\* risk_threshold as sent: absent, one of the four tiers, or something else
QueryThresholds == {None} \cup {Some(level) : level \in ChurnRisk \cup {"urgent"}}

\* a roster cap as sent: absent, zero, or negative
QueryCaps == {None, Some(0), Some(-1)}

\* mutant: a risk_threshold outside the enumeration replaced by the default
ThresholdOrDefault(sent) ==
    IF sent = None THEN Some("medium")
    ELSE IF Val(sent) \in ChurnRisk THEN sent
    ELSE Some("medium")

\* the risk_threshold the handler is called with, or None when the value
\* sent is not a ChurnRisk and the request is rejected
ValidatedThreshold(sent) ==
    IF sent = None THEN Some("medium")
    ELSE IF Val(sent) \in ChurnRisk THEN sent
    ELSE None

get_donor_lifecycle_analytics_query ==
    LET current_date == utcnow
        stats == donor_stats
    IN  /\ request = None
        /\ \E evals \in {[i \in 1..Len(stats) |-> EvaluateDonor(stats[i], current_date)]} :
           \E include_at_risk \in BOOLEAN, sent \in QueryThresholds, roster_cap \in QueryCaps :
               /\ request' = Some([include_at_risk |-> include_at_risk,
                                   risk_threshold  |-> sent,
                                   roster_cap      |-> roster_cap])
               /\ IF ValidatedThreshold(sent) = None
                  THEN /\ outcome' = "RequestValidationError"
                       /\ response' = None
                       /\ evaluated' = <<>>
                  ELSE \E run \in {RunReport(evals, include_at_risk,
                                             Val(ValidatedThreshold(sent)))} :
                           /\ outcome' = run.outcome
                           /\ response' = run.response
                           /\ evaluated' = run.evaluated
               /\ rerun' = None
        /\ UNCHANGED <<parties, donations, utcnow, fn_vars>>

ConfigNext == create_party \/ ClockTick \/ get_donor_lifecycle_analytics_query

ConfigSpec == Init /\ [][ConfigNext]_vars

(***************************************************************************)
(* LargeOrgSpec: an organization that grows past the roster cap; its       *)
(* parties are given no donation                                           *)
(***************************************************************************)
MaxOrgParties == 101

create_party_large ==
    /\ parties < MaxOrgParties
    /\ parties' = parties + 1
    /\ NoRequest
    /\ UNCHANGED <<donations, utcnow, fn_vars>>

LargeOrgNext == create_party_large \/ get_donor_lifecycle_analytics

LargeOrgSpec == Init /\ [][LargeOrgNext]_vars

(***************************************************************************)
(* Bounded inputs of the pure functions                                    *)
(***************************************************************************)
Slack == 1
MaxCount == 3
MaxGaps == 2

DayMarks == {0, 90, 180, 365, 730}

Days == {d \in -Slack..(LOST_DAYS + Slack) : \E m \in DayMarks : d >= m - Slack /\ d <= m + Slack}
            \cup {NEVER_DAYS}

Counts == 0..MaxCount

Values == {0, 100} \cup ((MAJOR_VALUE - Slack)..(MAJOR_VALUE + Slack))

\* spans (in days) whose 1.5-fold lies at or next to a day of Days
Spans == {0, 1, 60, 120, 243, 244, 486, 487, 730}

Frequencies == {[num |-> s, den |-> g] : s \in Spans, g \in 1..MaxGaps}

Dates == {None, Some(0)}

(***************************************************************************)
(* FnSpec: the functions applied to every bounded input                    *)
(***************************************************************************)
FnInit ==
    /\ donation_count \in Counts
    /\ last_donation_date \in Dates
    /\ lifetime_value \in Values
    /\ days_since_last \in Days
    /\ avg_donation_frequency \in Frequencies
    /\ stage_result = None
    /\ risk_result = None
    /\ earlier = None
    /\ recommendations = <<>>
    /\ parties = 0
    /\ donations = <<>>
    /\ utcnow = StartTick
    /\ request = None
    /\ outcome = "none"
    /\ response = None
    /\ evaluated = <<>>
    /\ rerun = None

ClassifyStage ==
    /\ stage_result = None
    /\ stage_result' = Some(calculate_lifecycle_stage_advanced(
                           donation_count, last_donation_date, lifetime_value, days_since_last))
    /\ UNCHANGED <<donation_count, last_donation_date, lifetime_value, days_since_last,
                   avg_donation_frequency, risk_result, earlier, recommendations,
                   db_vars, req_vars>>

ScoreChurnRisk ==
    /\ risk_result = None
    /\ risk_result' = Some(calculate_churn_risk_advanced(
                          days_since_last, donation_count, avg_donation_frequency, lifetime_value))
    /\ UNCHANGED <<donation_count, last_donation_date, lifetime_value, days_since_last,
                   avg_donation_frequency, stage_result, earlier, recommendations,
                   db_vars, req_vars>>

\* the scorer called again for the same donor with a greater days_since_last,
\* the other three arguments held fixed
ScoreChurnRiskLater ==
    /\ risk_result # None
    /\ earlier = None
    /\ \E d \in Days :
          /\ d > days_since_last
          /\ days_since_last' = d
          /\ risk_result' = Some(calculate_churn_risk_advanced(
                                d, donation_count, avg_donation_frequency, lifetime_value))
    /\ earlier' = Some([days_since_last |-> days_since_last, risk_result |-> Val(risk_result)])
    /\ stage_result' = None
    /\ UNCHANGED <<donation_count, last_donation_date, lifetime_value, avg_donation_frequency,
                   recommendations, db_vars, req_vars>>

FnNext == ClassifyStage \/ ScoreChurnRisk \/ ScoreChurnRiskLater

FnSpec == FnInit /\ [][FnNext]_vars

(***************************************************************************)
(* ActionSpec: get_recommended_action_advanced called on any tier and any  *)
(* stage, MaxCalls times over                                              *)
(***************************************************************************)
MaxCalls == 2

RecommendAction ==
    /\ Len(recommendations) < MaxCalls
    /\ \E risk_level \in ChurnRisk, stage \in Stages :
          recommendations' =
              Append(recommendations,
                     [risk_level |-> risk_level,
                      stage      |-> stage,
                      action     |-> get_recommended_action_advanced(risk_level, stage)])
    /\ UNCHANGED <<donation_count, last_donation_date, lifetime_value, days_since_last,
                   avg_donation_frequency, stage_result, risk_result, earlier,
                   db_vars, req_vars>>

ActionNext == RecommendAction

ActionSpec == Init /\ [][ActionNext]_vars

(***************************************************************************)
(* Properties of the classifier (FnSpec)                                   *)
(***************************************************************************)
Classified == stage_result # None

Scored == risk_result # None

\* C1: with donation_count = 0 the classifier returns prospect, whatever
\* days_since_last, lifetime_value and last_donation_date are.
C1_ZeroDonationsIsProspect ==
    (Classified /\ donation_count = 0) => Val(stage_result) = "prospect"

C1_Witness ==
    /\ Classified
    /\ donation_count = 0
    /\ days_since_last = 0
    /\ lifetime_value >= MAJOR_VALUE
    /\ last_donation_date # None
    /\ Val(stage_result) = "prospect"

\* C2: with donation_count = 1 the classifier returns first_time when
\* days_since_last <= 365 (365 included) and lost when days_since_last > 365,
\* whatever the lifetime value.
C2_SingleGift ==
    (Classified /\ donation_count = 1) =>
        /\ days_since_last <= 365 => Val(stage_result) = "first_time"
        /\ days_since_last > 365 => Val(stage_result) = "lost"

C2_Witness ==
    /\ Classified
    /\ donation_count = 1
    /\ days_since_last = 365
    /\ lifetime_value >= MAJOR_VALUE
    /\ Val(stage_result) = "first_time"

\* C3 as stated: with days_since_last >= 730 the classifier returns lost,
\* regardless of lifetime value and of donation count.
C3_Original ==
    (Classified /\ days_since_last >= 730) => Val(stage_result) = "lost"

\* C3 as amended: with days_since_last >= 730 the classifier never returns
\* lapsed, and returns lost for every donation count of at least 1 (with
\* donation_count = 0 it returns prospect), regardless of lifetime value.
C3_LostNeverLapsed ==
    (Classified /\ days_since_last >= 730) =>
        /\ Val(stage_result) # "lapsed"
        /\ donation_count >= 1 => Val(stage_result) = "lost"
        /\ donation_count = 0 => Val(stage_result) = "prospect"

C3_Witness ==
    /\ Classified
    /\ days_since_last = 730
    /\ donation_count >= 2
    /\ lifetime_value >= MAJOR_VALUE
    /\ Val(stage_result) = "lost"

\* C4: with donation_count >= 2 and 365 <= days_since_last < 730 the
\* classifier returns lapsed, also when lifetime_value >= 5000.
C4_Lapsed ==
    (Classified /\ donation_count >= 2 /\ days_since_last >= 365 /\ days_since_last < 730)
        => Val(stage_result) = "lapsed"

C4_Witness ==
    /\ Classified
    /\ donation_count >= 2
    /\ days_since_last = 729
    /\ lifetime_value >= MAJOR_VALUE
    /\ Val(stage_result) = "lapsed"

\* C5: with donation_count >= 2 and days_since_last < 365 the classifier
\* returns major when lifetime_value >= 5000 (5000 included) and repeat when
\* lifetime_value < 5000.
C5_MajorOrRepeat ==
    (Classified /\ donation_count >= 2 /\ days_since_last < 365) =>
        /\ lifetime_value >= 5000 => Val(stage_result) = "major"
        /\ lifetime_value < 5000 => Val(stage_result) = "repeat"

C5_Witness ==
    /\ Classified
    /\ donation_count >= 2
    /\ days_since_last = 364
    /\ lifetime_value = 5000
    /\ Val(stage_result) = "major"

\* C6 as stated: with lifetime_value >= 5000 and days_since_last < 365 the
\* classifier returns major regardless of donation count.
C6_Original ==
    (Classified /\ lifetime_value >= 5000 /\ days_since_last < 365)
        => Val(stage_result) = "major"

\* C6 as amended: with lifetime_value >= 5000 and days_since_last < 365 the
\* classifier returns major for every donation count of at least 2; the
\* count rules come first, so one donation gives first_time and none prospect.
C6_MajorFromTwoGifts ==
    (Classified /\ lifetime_value >= 5000 /\ days_since_last < 365) =>
        CASE donation_count >= 2 -> Val(stage_result) = "major"
          [] donation_count = 1 -> Val(stage_result) = "first_time"
          [] OTHER -> Val(stage_result) = "prospect"

C6_Witness ==
    /\ Classified
    /\ lifetime_value > MAJOR_VALUE
    /\ days_since_last = 0
    /\ donation_count = 2
    /\ Val(stage_result) = "major"

(***************************************************************************)
(* Properties of the scorer (FnSpec)                                       *)
(***************************************************************************)
\* the rule table of the scorer: the rules triggered by the arguments, in
\* table order, each with its weight and its factor string
TriggeredRules ==
    LET d == days_since_last
        avg == avg_donation_frequency
        rule(cond, factor, weight) ==
            IF cond THEN <<[factor |-> factor, weight |-> weight]>> ELSE <<>>
    IN  rule(d >= 365, <<"No donation in", d, "days (12+ months)">>, 40)
        \o rule(d >= 180 /\ d <= 364, <<"No donation in", d, "days (6+ months)">>, 20)
        \o rule(d >= 90 /\ d <= 179, <<"No donation in", d, "days (3+ months)">>, 10)
        \o rule(avg.num > 0 /\ 2 * d * avg.den > 3 * avg.num,
                <<"Overdue based on donation pattern">>, 25)
        \o rule(donation_count < 3, <<"Limited giving history (< 3 donations)">>, 15)
        \o rule(lifetime_value >= 5000 /\ d >= 180,
                <<"High-value donor showing inactivity">>, 20)

RECURSIVE SumWeights(_)
SumWeights(rules) ==
    IF rules = <<>> THEN 0 ELSE Head(rules).weight + SumWeights(Tail(rules))

InactivityFactors(factors) ==
    {i \in 1..Len(factors) : factors[i][1] = "No donation in"}

\* C7: the risk score is the sum of the weights of exactly the triggered
\* rules of the table, and risk_factors holds one string per triggered rule,
\* in rule order, with at most one inactivity factor.
C7_AdditiveScore ==
    Scored =>
        LET r == Val(risk_result)
            t == TriggeredRules
        IN  /\ r.risk_score = SumWeights(t)
            /\ r.risk_factors = [i \in 1..Len(t) |-> t[i].factor]
            /\ Cardinality(InactivityFactors(r.risk_factors)) <= 1

C7_Witness ==
    /\ Scored
    /\ Len(Val(risk_result).risk_factors) = 4
    /\ Val(risk_result).risk_score = 100
    /\ days_since_last = 365

\* the tier the claim gives to a score
TierOfBand(score) ==
    CHOOSE t \in ChurnRisk :
        \/ t = "critical" /\ score >= 70
        \/ t = "high" /\ score >= 50 /\ score <= 69
        \/ t = "medium" /\ score >= 30 /\ score <= 49
        \/ t = "low" /\ score < 30

\* the scores on either side of each tier boundary
BoundaryScores == {0, 29, 30, 49, 50, 69, 70, 71}

\* C8: the tier is a function of the score with inclusive lower bounds:
\* >= 70 critical, 50..69 high, 30..49 medium, below 30 low; exactly one tier
\* for every score the scorer computes, and for 70, 69, 50, 49, 30 and 29.
C8_TierOfScore ==
    /\ Scored =>
          LET r == Val(risk_result)
          IN  /\ r.risk_level \in ChurnRisk
              /\ r.risk_level = "critical" <=> r.risk_score >= 70
              /\ r.risk_level = "high" <=> (r.risk_score >= 50 /\ r.risk_score <= 69)
              /\ r.risk_level = "medium" <=> (r.risk_score >= 30 /\ r.risk_score <= 49)
              /\ r.risk_level = "low" <=> r.risk_score < 30
    /\ \A score \in BoundaryScores : RiskLevelOf(score) = TierOfBand(score)

C8_Witness ==
    /\ Scored
    /\ Val(risk_result).risk_score = 50
    /\ Val(risk_result).risk_level = "high"

\* C9: with donation_count, avg_donation_frequency and lifetime_value held
\* fixed, neither the risk score nor the tier decreases when days_since_last
\* increases.
C9_MonotoneInDays ==
    (Scored /\ earlier # None) =>
        LET before == Val(earlier)
            after == Val(risk_result)
        IN  before.days_since_last < days_since_last =>
              /\ before.risk_result.risk_score <= after.risk_score
              /\ risk_order(before.risk_result.risk_level) <= risk_order(after.risk_level)

C9_Witness ==
    /\ Scored
    /\ earlier # None
    /\ Val(earlier).days_since_last = 364
    /\ days_since_last = 365
    /\ Val(earlier).risk_result.risk_score < Val(risk_result).risk_score

(***************************************************************************)
(* Properties of the pipeline (Spec)                                       *)
(***************************************************************************)
\* the donors evaluated by the last request that have no donation
EvaluatedProspects == {i \in 1..Len(evaluated) : evaluated[i].donation_count = 0}

\* C10: for every donor with zero donations, at any evaluation instant, the
\* loop uses days_since_last = 999999, classifies the donor as prospect, and
\* the scorer triggers exactly long inactivity (+40) and thin history (+15):
\* score 55, tier high.
C10_ZeroDonationDonor ==
    \A i \in EvaluatedProspects :
        LET e == evaluated[i]
        IN  /\ e.days_since_last = 999999
            /\ e.stage = "prospect"
            /\ e.risk_factors = << <<"No donation in", 999999, "days (12+ months)">>,
                                   <<"Limited giving history (< 3 donations)">> >>
            /\ e.risk_score = 55
            /\ e.risk_level = "high"

C10_Witness ==
    /\ outcome = "ok"
    /\ utcnow > StartTick
    /\ Len(donations) > 0
    /\ EvaluatedProspects # {}
    /\ Val(response).lifecycle_stages[1].donor_count >= 1

\* the conclusion of C11 for one evaluated donor
LostSingleGiftAtHigh(e) ==
    /\ e.donation_count = 1
    /\ e.stage = "lost"
    /\ e.risk_factors = << <<"No donation in", e.days_since_last, "days (12+ months)">>,
                           <<"Limited giving history (< 3 donations)">> >>
    /\ e.risk_score = 55
    /\ e.risk_level = "high"

\* C11 as stated: for every donor whose history is a single donation with
\* lifetime value below 5000 made more than 365 days before the evaluation
\* instant, the pipeline yields donation_count 1, stage lost, and exactly the
\* long-inactivity (+40) and thin-history (+15) factors: score 55, tier high.
\* "More than 365 days before" is read on the clock: a donation made 365 days
\* and some hours before the instant is included.
C11_Original ==
    \A i \in 1..Len(evaluated) :
        LET e == evaluated[i]
        IN  (/\ e.donation_count = 1
             /\ e.lifetime_value < 5000
             /\ utcnow - Val(e.last_donation_date) > 365 * TicksPerDay)
            => LostSingleGiftAtHigh(e)

\* C11 amended: the same conclusion for every donor whose single donation,
\* with lifetime value below 5000, lies at least 366 whole days before the
\* evaluation instant (days_since_last, the whole days elapsed, exceeds 365).
C11_OldSingleGift ==
    \A i \in 1..Len(evaluated) :
        LET e == evaluated[i]
        IN  (/\ e.donation_count = 1
             /\ e.lifetime_value < 5000
             /\ e.days_since_last > 365)
            => LostSingleGiftAtHigh(e)

C11_Witness ==
    /\ outcome = "ok"
    /\ \E i \in 1..Len(evaluated) :
          /\ evaluated[i].donation_count = 1
          /\ evaluated[i].lifetime_value = 100
          /\ evaluated[i].days_since_last = 800
          /\ evaluated[i].risk_score = 55
    /\ Val(response).lifecycle_stages[6].stage = "lost"
    /\ Val(response).lifecycle_stages[6].donor_count >= 1

(***************************************************************************)
(* Properties of the action table (ActionSpec)                             *)
(***************************************************************************)
BespokePairs ==
    {<<"critical", "major">>, <<"critical", "repeat">>, <<"high", "major">>,
     <<"high", "repeat">>, <<"medium", "repeat">>}

BespokeActions ==
    {"URGENT: Personal call from Executive Director within 48 hours",
     "High-touch re-engagement campaign, offer exclusive event invite",
     "Schedule coffee meeting, share insider updates",
     "Multi-channel re-engagement, highlight recent impact",
     "Include in next newsletter, light touch"}

\* C12: get_recommended_action_advanced returns a bespoke string for exactly
\* the five pairs (critical, major), (critical, repeat), (high, major),
\* (high, repeat), (medium, repeat), a different one for each, and the generic
\* "Standard stewardship communication" for each of the other 19 (tier, stage)
\* pairs, among them every pair whose stage is prospect, first_time, lapsed or
\* lost; every call returns a string.
C12_ActionTable ==
    /\ Cardinality((ChurnRisk \X Stages) \ BespokePairs) = 19
    /\ \A k \in 1..Len(recommendations) :
          LET c == recommendations[k]
          IN  IF <<c.risk_level, c.stage>> \in BespokePairs
              THEN c.action \in BespokeActions
              ELSE c.action = "Standard stewardship communication"
    /\ \A k, m \in 1..Len(recommendations) :
          (/\ recommendations[k].action = recommendations[m].action
           /\ recommendations[k].action \in BespokeActions)
          => (/\ recommendations[k].risk_level = recommendations[m].risk_level
              /\ recommendations[k].stage = recommendations[m].stage)

C12_Witness ==
    /\ Len(recommendations) = 2
    /\ recommendations[1].risk_level = "medium"
    /\ recommendations[1].stage = "repeat"
    /\ recommendations[1].action = "Include in next newsletter, light touch"
    /\ recommendations[2].risk_level = "critical"
    /\ recommendations[2].stage = "lost"
    /\ recommendations[2].action = "Standard stewardship communication"

(***************************************************************************)
(* Properties of the at-risk roster (Spec, LargeOrgSpec).  The tables and  *)
(* the clock are as the held request read them.                            *)
(***************************************************************************)
\* the loop's locals for a donor of the organization
Evaluation(party_id) == EvaluateDonor(DonorStatsRow(party_id), utcnow)

\* the donors whose tier is at or above the threshold of the held request
QualifyingDonors ==
    {i \in 1..parties :
        risk_order(Evaluation(i).risk_level) >= risk_order(Val(request).risk_threshold)}

AtRiskRequested == request # None /\ Val(request).include_at_risk

\* the donors listed in the roster of the returned report
RosterDonors ==
    {Val(response).at_risk_donors[k].donor_id : k \in 1..Len(Val(response).at_risk_donors)}

C14_RosterHoldsEveryQualifyingDonor ==
    /\ outcome = "ok" => Len(Val(response).at_risk_donors) <= 100
    /\ (AtRiskRequested /\ QualifyingDonors # {} /\ Cardinality(QualifyingDonors) < 100)
       => /\ outcome = "ok"
          /\ LET roster == Val(response).at_risk_donors
             IN  \A q \in QualifyingDonors :
                     Cardinality({k \in 1..Len(roster) : roster[k].donor_id = q}) = 1

C16_SelectedIffAtThreshold ==
    AtRiskRequested
    => /\ outcome = "ok"
       /\ \A i \in 1..parties : i \in RosterDonors <=> i \in QualifyingDonors
       /\ LET roster == Val(response).at_risk_donors
          IN  \A k \in 1..Len(roster) :
                  risk_order(roster[k].risk_level) >= risk_order(Val(request).risk_threshold)
       /\ Val(request).risk_threshold = "low" => RosterDonors = 1..parties

\* the donors whose last donation is 365 or more days before the instant
YearInactiveDonors ==
    {i \in 1..parties : /\ Evaluation(i).last_donation_date # None
                        /\ Evaluation(i).days_since_last >= 365}

\* C17: every donor whose last donation is 365 or more days before the
\* evaluation instant has a tier of at least medium, and a request with the
\* default risk_threshold (medium) and include_at_risk true returns a report
\* whose roster lists them (the organizations of Spec are smaller than the
\* cap).
C17_YearInactiveFlagged ==
    /\ \A i \in YearInactiveDonors : risk_order(Evaluation(i).risk_level) >= risk_order("medium")
    /\ (/\ request = Some([include_at_risk |-> TRUE, risk_threshold |-> "medium"])
        /\ YearInactiveDonors # {})
       => /\ outcome = "ok"
          /\ YearInactiveDonors \subseteq RosterDonors

(***************************************************************************)
(* Properties of the stage metrics and the summary (Spec)                  *)
(***************************************************************************)
\* the donors the loop classified into the stage
ClassifiedInto(stage) == {i \in 1..Len(evaluated) : evaluated[i].stage = stage}

\* the sums of days_since_last and of lifetime_value over those donors
DaysSumOf(stage) ==
    Sum([i \in 1..Len(evaluated) |->
            IF evaluated[i].stage = stage THEN evaluated[i].days_since_last ELSE 0])

ValueSumOf(stage) ==
    Sum([i \in 1..Len(evaluated) |->
            IF evaluated[i].stage = stage THEN evaluated[i].lifetime_value ELSE 0])

Abs(x) == IF x < 0 THEN -x ELSE x

\* every stage listed exactly once, with the number of donors classified
\* into it, and an empty stage with both averages 0
StagesListedWithCounts ==
    LET stages == Val(response).lifecycle_stages
    IN  /\ Len(stages) = 6
        /\ \A stage \in {"prospect", "first_time", "repeat", "major", "lapsed", "lost"} :
               Cardinality({k \in 1..Len(stages) : stages[k].stage = stage}) = 1
        /\ \A k \in 1..Len(stages) :
               /\ stages[k].donor_count = Cardinality(ClassifiedInto(stages[k].stage))
               /\ stages[k].donor_count = 0
                     => stages[k].avg_days_in_stage = 0 /\ stages[k].avg_lifetime_value = 0

\* C18 as stated: every report lists all six stages exactly once; each
\* stage's donor_count is the number of donors classified into it, its
\* averages are the means of days_since_last and lifetime_value over those
\* donors, and an empty stage reports donor_count 0 with both averages 0.
\* (avg_days_in_stage is held in tenths, avg_lifetime_value in hundredths.)
C18_Original ==
    outcome = "ok"
    => /\ StagesListedWithCounts
       /\ LET stages == Val(response).lifecycle_stages
          IN  \A k \in 1..Len(stages) :
                  stages[k].donor_count > 0
                  => /\ stages[k].avg_days_in_stage * stages[k].donor_count
                           = 10 * DaysSumOf(stages[k].stage)
                     /\ stages[k].avg_lifetime_value * stages[k].donor_count
                           = 100 * ValueSumOf(stages[k].stage)

\* C18 amended: the same, the averages being the means rounded to one
\* decimal (days_since_last) and to two decimals (lifetime_value): each lies
\* within half a unit of the last kept decimal of the mean.
C18_StageMetrics ==
    outcome = "ok"
    => /\ StagesListedWithCounts
       /\ LET stages == Val(response).lifecycle_stages
          IN  \A k \in 1..Len(stages) :
                  stages[k].donor_count > 0
                  => /\ 2 * Abs(stages[k].avg_days_in_stage * stages[k].donor_count
                                   - 10 * DaysSumOf(stages[k].stage))
                           <= stages[k].donor_count
                     /\ 2 * Abs(stages[k].avg_lifetime_value * stages[k].donor_count
                                   - 100 * ValueSumOf(stages[k].stage))
                           <= stages[k].donor_count

C18_Witness ==
    /\ outcome = "ok"
    /\ \E k \in 1..6 :
          /\ Val(response).lifecycle_stages[k].donor_count = 3
          /\ Val(response).lifecycle_stages[k].avg_days_in_stage % 10 # 0
          /\ Val(response).lifecycle_stages[k].avg_lifetime_value % 100 # 0
    /\ \E k \in 1..6 : Val(response).lifecycle_stages[k].donor_count = 0

\* active_donors is the number of repeat donors plus the number of major
\* donors, and total_donors the number of donors
ActiveAndTotalCounted ==
    LET summary == Val(response).summary_metrics
    IN  /\ summary.active_donors
              = Cardinality(ClassifiedInto("repeat")) + Cardinality(ClassifiedInto("major"))
        /\ summary.total_donors = Len(evaluated)

\* C19 as stated: in every report active_donors is the number of repeat
\* donors plus the number of major donors, and retention_rate equals
\* active_donors / total_donors whenever total_donors > 0.  (retention_rate
\* is held in tenths of a unit.)
C19_Original ==
    outcome = "ok"
    => /\ ActiveAndTotalCounted
       /\ LET summary == Val(response).summary_metrics
          IN  summary.total_donors > 0
              => summary.retention_rate * summary.total_donors = 10 * summary.active_donors

\* C19 amended: active_donors as stated, and retention_rate equals
\* active_donors / total_donors as a percentage rounded to one decimal
\* (within 0.05 of 100 * active_donors / total_donors) whenever
\* total_donors > 0.
C19_RetentionPercent ==
    outcome = "ok"
    => /\ ActiveAndTotalCounted
       /\ LET summary == Val(response).summary_metrics
          IN  summary.total_donors > 0
              => 2 * Abs(summary.retention_rate * summary.total_donors
                           - 10 * 100 * summary.active_donors)
                    <= summary.total_donors

C19_Witness ==
    /\ outcome = "ok"
    /\ Val(response).summary_metrics.total_donors = 3
    /\ Val(response).summary_metrics.active_donors = 1
    /\ Val(response).summary_metrics.retention_rate = 333
    /\ ClassifiedInto("major") # {}

\* C20: when the organization has no donors the report is still produced,
\* with total_donors 0 and retention_rate 0, whatever the request asks for.
C20_EmptyOrganization ==
    (request # None /\ parties = 0)
    => /\ outcome = "ok"
       /\ response # None
       /\ Val(response).summary_metrics.total_donors = 0
       /\ Val(response).summary_metrics.retention_rate = 0

C20_Witness ==
    /\ parties = 0
    /\ request = Some([include_at_risk |-> TRUE, risk_threshold |-> "low"])
    /\ outcome = "ok"
    /\ Val(response).summary_metrics.retention_rate = 0
    /\ Val(response).at_risk_donors = <<>>

\* the donors the loop gave the tier
TierDonors(level) == {i \in 1..Len(evaluated) : evaluated[i].risk_level = level}

\* C21: in every report summary_metrics.critical_risk_count equals the number
\* of donors of the organization whose risk tier is critical, for every
\* risk_threshold and every include_at_risk value.
C21_CriticalCountOverAllDonors ==
    outcome = "ok"
    => Val(response).summary_metrics.critical_risk_count
          = Cardinality(TierDonors("critical"))

InvalidThresholdSent ==
    /\ request # None
    /\ Val(request).risk_threshold # None
    /\ Val(Val(request).risk_threshold) \notin {"low", "medium", "high", "critical"}

InvalidCapSent ==
    /\ request # None
    /\ Val(request).roster_cap # None
    /\ Val(Val(request).roster_cap) <= 0

Rejected == outcome = "RequestValidationError" /\ response = None /\ evaluated = <<>>

AcquiredIn(year) ==
    {i \in 1..parties : /\ DonorStatsRow(i).first_donation_date # None
                        /\ YearOf(Val(DonorStatsRow(i).first_donation_date)) = year}

\* C24: in the cohort analysis of every report each bucket is a year within
\* the last 3 years including the current one, and its initial_count is the
\* number of donors whose first donation fell in that year, so that a donor
\* is counted in one bucket only, the year of their first donation.
C24_CohortByFirstDonationYear ==
    outcome = "ok"
    => LET cohorts == Val(response).cohort_analysis
       IN  \A k \in 1..Len(cohorts) :
               \E year \in (YearOf(utcnow) - 2)..YearOf(utcnow) :
                   /\ cohorts[k].cohort_period = ToString(year)
                   /\ cohorts[k].initial_count = Cardinality(AcquiredIn(year))

(***************************************************************************)
(* Properties of the average donation interval (Spec)                      *)
(***************************************************************************)
\* the received_date of every donation of the party
DonationDatesOf(party_id) ==
    {donations[k].received_date :
        k \in {j \in 1..Len(donations) : donations[j].party_id = party_id}}

Overdue(e) ==
    \E k \in 1..Len(e.risk_factors) : e.risk_factors[k] = <<"Overdue based on donation pattern">>

\* C25: for every donor the loop's average interval is (last - first).days /
\* (donation_count - 1) when donation_count > 1 and 0 otherwise; it is never
\* negative, it is 0 for a donor whose donations all fall on the same day,
\* and the overdue rule fires for no such donor and for no donor with fewer
\* than 2 donations.  (The interval is the fraction num / den.)
C25_AverageInterval ==
    \A i \in 1..Len(evaluated) :
        LET e == evaluated[i]
            dates == DonationDatesOf(e.donor_id)
            avg == e.avg_frequency
        IN  /\ e.donation_count > 1
                  => \E first \in dates, last \in dates :
                         /\ \A d \in dates : first <= d /\ d <= last
                         /\ avg.num * TicksPerDay <= last - first
                         /\ last - first < (avg.num + 1) * TicksPerDay
                         /\ avg.den = e.donation_count - 1
            /\ e.donation_count <= 1 => avg.num = 0
            /\ avg.num >= 0 /\ avg.den > 0
            /\ (\A d1, d2 \in dates : d1 \div TicksPerDay = d2 \div TicksPerDay) => avg.num = 0
            /\ (avg.num = 0 \/ e.donation_count < 2) => ~Overdue(e)

C25_Witness ==
    \E i, j \in 1..Len(evaluated) :
        /\ evaluated[i].donation_count = 2
        /\ Cardinality(DonationDatesOf(evaluated[i].donor_id)) = 2
        /\ evaluated[i].avg_frequency.num = 0
        /\ evaluated[j].donation_count = 1
        /\ ~Overdue(evaluated[i])
        /\ ~Overdue(evaluated[j])

(***************************************************************************)
(* Properties of the classifier and the scorer together (FnSpec)           *)
(***************************************************************************)
\* C26: no donor classified as repeat is given the critical tier: a repeat
\* donor's score is at most 60, so the action recommended for a repeat donor
\* is never the (critical, repeat) entry of the action table.
C26_RepeatNeverCritical ==
    (Classified /\ Scored /\ Val(stage_result) = "repeat")
    => /\ Val(risk_result).risk_score <= 60
       /\ Val(risk_result).risk_level # "critical"
       /\ get_recommended_action_advanced(Val(risk_result).risk_level, Val(stage_result))
             # "High-touch re-engagement campaign, offer exclusive event invite"

C26_Witness ==
    /\ Classified
    /\ Scored
    /\ Val(stage_result) = "repeat"
    /\ days_since_last = 364
    /\ Val(risk_result).risk_score = 60
    /\ Val(risk_result).risk_level = "high"

(***************************************************************************)
(* Properties of the scorer's range (FnSpec)                               *)
(***************************************************************************)
PossibleScores == {0, 10, 15, 20, 25, 35, 40, 45, 50, 55, 60, 65, 75, 80, 85, 100}

\* the claim of C27 for one value returned by the scorer
ScoreInRange(result) ==
    /\ result.risk_score \in PossibleScores
    /\ result.risk_score <= 100
    /\ result.risk_score \notin {30, 70}
    /\ result.risk_level = "critical" <=> result.risk_score >= 75
    /\ Len(result.risk_factors) <= 4

\* C27: for every input of calculate_churn_risk_advanced the risk score is
\* one of {0,10,15,20,25,35,40,45,50,55,60,65,75,80,85,100}: it never exceeds
\* 100, never equals 30 or 70, the lowest score that yields critical is 75,
\* and risk_factors never has more than 4 entries.
C27_ScoreRange ==
    /\ Scored => ScoreInRange(Val(risk_result))
    /\ earlier # None => ScoreInRange(Val(earlier).risk_result)

C27_Witness ==
    /\ Scored
    /\ earlier # None
    /\ Val(earlier).risk_result.risk_score = 75
    /\ Val(earlier).risk_result.risk_level = "critical"
    /\ Val(risk_result).risk_score = 100
    /\ Len(Val(risk_result).risk_factors) = 4

(***************************************************************************)
(* Properties of the summary counts (Spec)                                 *)
(***************************************************************************)
\* C28: a request for the at-risk roster returns a report whose
\* summary_metrics.at_risk_count is the number of donors meeting the
\* threshold, before the roster is truncated: at_risk_count >= length of the
\* returned at_risk_donors, with equality if and only if at most 100 donors
\* qualify.
C28_AtRiskCountBeforeTruncation ==
    AtRiskRequested
    => /\ outcome = "ok"
       /\ LET at_risk_count == Val(response).summary_metrics.at_risk_count
              roster == Val(response).at_risk_donors
          IN  /\ at_risk_count = Cardinality(QualifyingDonors)
              /\ at_risk_count >= Len(roster)
              /\ at_risk_count = Len(roster) <=> Cardinality(QualifyingDonors) <= 100

\* C29: the stages partition the donors of a report: every donor of the
\* organization is counted in exactly one stage, the sum of donor_count over
\* the six stages equals summary_metrics.total_donors, and active_donors <=
\* total_donors, so that retention_rate lies between 0 and 100 percent.
\* (retention_rate is held in tenths of a percent.)
C29_StagesPartitionDonors ==
    outcome = "ok"
    => LET stages == Val(response).lifecycle_stages
           summary == Val(response).summary_metrics
       IN  /\ \A i \in 1..parties :
                  Cardinality({k \in 1..Len(stages) :
                      \E j \in ClassifiedInto(stages[k].stage) : evaluated[j].donor_id = i}) = 1
           /\ Sum([k \in 1..Len(stages) |-> stages[k].donor_count]) = summary.total_donors
           /\ summary.total_donors = parties
           /\ summary.active_donors <= summary.total_donors
           /\ 0 <= summary.retention_rate
           /\ summary.retention_rate <= 100 * 10

C29_Witness ==
    /\ outcome = "ok"
    /\ parties = 3
    /\ Val(response).summary_metrics.total_donors = 3
    /\ Val(response).lifecycle_stages[1].donor_count = 1
    /\ Val(response).lifecycle_stages[3].donor_count = 1
    /\ Val(response).lifecycle_stages[6].donor_count = 1
    /\ Val(response).summary_metrics.retention_rate = 333

(***************************************************************************)
(* Properties of the 365-day boundary (Spec)                               *)
(***************************************************************************)
\* the evaluated donors with exactly one donation, 365 whole days old
SingleGiftAtBoundary ==
    {i \in 1..Len(evaluated) : /\ evaluated[i].donation_count = 1
                               /\ evaluated[i].days_since_last = 365}

\* C30: a donor with exactly one donation made 365 days before the
\* evaluation instant is classified first_time (not lost) and yet receives
\* the long-inactivity (12+ months, +40) factor and the thin-history factor,
\* giving score 55 and tier high, or, with the high-value factor when
\* lifetime_value >= 5000, score 75 and tier critical.
C30_BoundaryDisagreement ==
    \A i \in SingleGiftAtBoundary :
        LET e == evaluated[i]
        IN  /\ e.stage = "first_time"
            /\ e.risk_factors[1] = <<"No donation in", 365, "days (12+ months)">>
            /\ e.risk_factors[2] = <<"Limited giving history (< 3 donations)">>
            /\ IF e.lifetime_value >= 5000
               THEN /\ Len(e.risk_factors) = 3
                    /\ e.risk_factors[3] = <<"High-value donor showing inactivity">>
                    /\ e.risk_score = 75
                    /\ e.risk_level = "critical"
               ELSE /\ Len(e.risk_factors) = 2
                    /\ e.risk_score = 55
                    /\ e.risk_level = "high"

C30_Witness ==
    \E i, j \in SingleGiftAtBoundary :
        /\ utcnow - Val(evaluated[i].last_donation_date) = 365 * TicksPerDay
        /\ evaluated[i].lifetime_value = 5000
        /\ evaluated[i].risk_level = "critical"
        /\ evaluated[j].lifetime_value = 100
        /\ evaluated[j].risk_level = "high"
        /\ evaluated[j].stage = "first_time"

====
